---- MODULE Spec2Model ----
(***************************************************************************)
(* Model of asynqtt/protocol/fixedheader.py: the MQTT fixed-header value   *)
(* types.  The module is a library of constructors and pure methods; the   *)
(* state is what a caller holds: the last flag object it constructed and a *)
(* record of the last call with its arguments and its outcome.             *)
(***************************************************************************)
EXTENDS Integers, Sequences, FiniteSets

VARIABLES flags, call

vars == <<flags, call>>

\* Largest magnitude of the integer arguments a caller passes.
MaxArg == 3

\* ------------------------------------------------------------------------
\* Python values
\* ------------------------------------------------------------------------

None == [cls |-> "NoneType"]

PyInt(n) == [cls |-> "int", value |-> n]

NoError == [exc |-> "none"]

ValueError(attribute, container, value) ==
    [exc |-> "ValueError", attribute |-> attribute,
     container |-> container, value |-> value]

RECURSIVE BitOr(_, _)
BitOr(a, b) ==
    IF a = 0 THEN b
    ELSE IF b = 0 THEN a
    ELSE (IF a % 2 = 1 \/ b % 2 = 1 THEN 1 ELSE 0)
         + 2 * BitOr(a \div 2, b \div 2)

Shl(a, n) == a * 2^n

\* ------------------------------------------------------------------------
\* PublishFlags
\* ------------------------------------------------------------------------

\* _validate_in: the error raised, or NoError when value is in container
PublishFlags_validate_in(value, container, attribute) ==
    IF value \notin container
    THEN ValueError(attribute, container, value)
    ELSE NoError

\* __post_init__ with the qos check accepting the reserved level 3
PublishFlags_post_init_qos3(dup, qos, retain) ==
    LET e1 == PublishFlags_validate_in(dup, {0, 1}, "dup")
        e2 == PublishFlags_validate_in(qos, {0, 1, 2, 3}, "qos")
        e3 == PublishFlags_validate_in(retain, {0, 1}, "retain")
    IN  IF e1 # NoError THEN e1
        ELSE IF e2 # NoError THEN e2
        ELSE e3

\* __post_init__: the three checks in order; the first failure propagates
PublishFlags_post_init(dup, qos, retain) ==
    LET e1 == PublishFlags_validate_in(dup, {0, 1}, "dup")
        e2 == PublishFlags_validate_in(qos, {0, 1, 2}, "qos")
        e3 == PublishFlags_validate_in(retain, {0, 1}, "retain")
    IN  IF e1 # NoError THEN e1
        ELSE IF e2 # NoError THEN e2
        ELSE e3

\* PublishFlags(dup, qos, retain): the generated __init__ stores the fields
\* as given and runs __post_init__; an exception leaves no object.
PublishFlags(dup, qos, retain) ==
    LET e == PublishFlags_post_init(dup, qos, retain)
    IN  [raised |-> e,
         result |-> IF e = NoError
                    THEN [cls |-> "PublishFlags", dup |-> dup,
                          qos |-> qos, retain |-> retain]
                    ELSE None]

\* bits() with qos shifted into bits 3-2
PublishFlags_bits_shift2(self) ==
    BitOr(BitOr(BitOr(0, Shl(self.dup, 3)), Shl(self.qos, 2)), self.retain)

\* bits() with qos not shifted at all
PublishFlags_bits_noshift(self) ==
    BitOr(BitOr(BitOr(0, Shl(self.dup, 3)), self.qos), self.retain)

PublishFlags_bits(self) ==
    BitOr(BitOr(BitOr(0, Shl(self.dup, 3)), Shl(self.qos, 1)), self.retain)

\* ------------------------------------------------------------------------
\* ZeroBits, PubrelBits and its aliases
\* ------------------------------------------------------------------------

ZeroBits == [cls |-> "ZeroBits"]

ZeroBits_bits(self) == 0

PubrelBits == [cls |-> "PubrelBits"]

PubrelBits_bits(self) == 2

SubscribeBits == PubrelBits

UnsubscribeBits == PubrelBits

\* FlagBits.bits(): dispatch on the class of the object
FlagBits_bits(self) ==
    CASE self.cls = "PublishFlags" -> PublishFlags_bits(self)
      [] self.cls = "ZeroBits"     -> ZeroBits_bits(self)
      [] self.cls = "PubrelBits"   -> PubrelBits_bits(self)

\* ------------------------------------------------------------------------
\* ControlPacketTypeEnum
\* ------------------------------------------------------------------------

Member(name, value) == [cls |-> "ControlPacketTypeEnum",
                        name |-> name, value |-> value]

\* the member list with UNSUBSCRIBE given SUBACK's code
ControlPacketTypeEnum_dupcode ==
    << Member("CONNECT", 1), Member("CONNACK", 2), Member("PUBLISH", 3),
       Member("PUBACK", 4), Member("PUBREC", 5), Member("PUBREL", 6),
       Member("PUBCOMP", 7), Member("SUBSCRIBE", 8), Member("SUBACK", 9),
       Member("UNSUBSCRIBE", 9), Member("UNSUBACK", 11),
       Member("PINGREQ", 12), Member("PINGRESP", 13),
       Member("DISCONNECT", 14) >>

\* the class body, in definition order
ControlPacketTypeEnum ==
    << Member("CONNECT", 1), Member("CONNACK", 2), Member("PUBLISH", 3),
       Member("PUBACK", 4), Member("PUBREC", 5), Member("PUBREL", 6),
       Member("PUBCOMP", 7), Member("SUBSCRIBE", 8), Member("SUBACK", 9),
       Member("UNSUBSCRIBE", 10), Member("UNSUBACK", 11),
       Member("PINGREQ", 12), Member("PINGRESP", 13),
       Member("DISCONNECT", 14) >>

\* ControlPacketTypeEnum.NAME
ControlPacketTypeEnum_attr(name) ==
    LET i == CHOOSE j \in 1..Len(ControlPacketTypeEnum) :
                 ControlPacketTypeEnum[j].name = name
    IN  ControlPacketTypeEnum[i]

\* ControlPacketTypeEnum(value): lookup by value.  A later member with the
\* value of an earlier one is an alias of it, so the first match is returned;
\* a value of no member raises ValueError.
ControlPacketTypeEnum_call(value) ==
    LET hits == {j \in 1..Len(ControlPacketTypeEnum) :
                     ControlPacketTypeEnum[j].value = value}
    IN  IF hits = {}
        THEN [raised |-> ValueError("ControlPacketTypeEnum", {}, value),
              result |-> None]
        ELSE [raised |-> NoError,
              result |-> ControlPacketTypeEnum[
                             CHOOSE j \in hits : \A k \in hits : j <= k]]

\* ------------------------------------------------------------------------
\* RemainingLength
\* ------------------------------------------------------------------------

\* RemainingLength(message_size): the generated __init__ stores the field;
\* the class has no __post_init__
RemainingLength(message_size) ==
    [raised |-> NoError,
     result |-> [cls |-> "RemainingLength", message_size |-> message_size]]

\* ------------------------------------------------------------------------
\* ControlPacket and its subclasses
\* ------------------------------------------------------------------------

\* ControlPacket(flags): type has init=False and no default, so the
\* generated __init__ never sets it and the object has no such attribute
ControlPacket(f) == [cls |-> "ControlPacket", flags |-> f]

PublishControlPacket_default == PublishFlags(0, 0, 0).result

PublishControlPacket(f) ==
    [cls |-> "PublishControlPacket", flags |-> f,
     type |-> ControlPacketTypeEnum_attr("PUBLISH")]

PubrelControlPacket_default == PubrelBits

PubrelControlPacket(f) ==
    [cls |-> "PubrelControlPacket", flags |-> f,
     type |-> ControlPacketTypeEnum_attr("PUBREL")]

SubscribeControlPacket_default == SubscribeBits

SubscribeControlPacket(f) ==
    [cls |-> "SubscribeControlPacket", flags |-> f,
     type |-> ControlPacketTypeEnum_attr("SUBSCRIBE")]

ControlPacket_default == ZeroBits

ControlPacket_flag_bits(self) == FlagBits_bits(self.flags)

\* ------------------------------------------------------------------------
\* Inputs
\* ------------------------------------------------------------------------

ArgInts == (0 - 1)..MaxArg

\* message sizes: small ones and the ones around 2^28 - 1
SizeInts == ArgInts \cup {2^28 - 1 + d : d \in ArgInts}

\* type codes: the 4-bit codes and a few integers on either side
CodeInts == (0 - 1)..(15 + MaxArg)

\* ------------------------------------------------------------------------
\* The caller
\* ------------------------------------------------------------------------

Init ==
    /\ flags = None
    /\ call = [op |-> "none", args |-> <<>>, raised |-> NoError,
               result |-> None]

Called(op, args, r) ==
    call' = [op |-> op, args |-> args, raised |-> r.raised,
             result |-> r.result]

Returned(v) == [raised |-> NoError, result |-> v]

NewPublishFlags ==
    \E dup \in ArgInts, qos \in ArgInts, retain \in ArgInts :
        LET r == PublishFlags(dup, qos, retain)
        IN  /\ Called("PublishFlags", <<dup, qos, retain>>, r)
            /\ flags' = IF r.raised = NoError THEN r.result ELSE flags

NewZeroBits ==
    /\ Called("ZeroBits", <<>>, Returned(ZeroBits))
    /\ flags' = ZeroBits

NewPubrelBits ==
    \E op \in {"PubrelBits", "SubscribeBits", "UnsubscribeBits"} :
        LET v == CASE op = "PubrelBits"      -> PubrelBits
                   [] op = "SubscribeBits"   -> SubscribeBits
                   [] op = "UnsubscribeBits" -> UnsubscribeBits
        IN  /\ Called(op, <<>>, Returned(v))
            /\ flags' = v

CallBits ==
    /\ flags # None
    /\ Called("bits", <<flags>>, Returned(PyInt(FlagBits_bits(flags))))
    /\ UNCHANGED flags

LookupType ==
    \E code \in CodeInts :
        /\ Called("ControlPacketTypeEnum", <<code>>,
                  ControlPacketTypeEnum_call(code))
        /\ UNCHANGED flags

NewRemainingLength ==
    \E n \in SizeInts :
        /\ Called("RemainingLength", <<n>>, RemainingLength(n))
        /\ UNCHANGED flags

PacketClasses == {"ControlPacket", "PublishControlPacket",
                  "PubrelControlPacket", "SubscribeControlPacket"}

\* a packet constructor called without arguments
NewPacketDefault ==
    \E op \in PacketClasses :
        LET p == CASE op = "ControlPacket" ->
                        ControlPacket(ControlPacket_default)
                   [] op = "PublishControlPacket" ->
                        PublishControlPacket(PublishControlPacket_default)
                   [] op = "PubrelControlPacket" ->
                        PubrelControlPacket(PubrelControlPacket_default)
                   [] op = "SubscribeControlPacket" ->
                        SubscribeControlPacket(SubscribeControlPacket_default)
        IN  /\ Called(op, <<>>, Returned(p))
            /\ UNCHANGED flags

\* a packet constructor called with the flag object the caller holds
NewPacketWithFlags ==
    /\ flags # None
    /\ \E op \in PacketClasses :
        LET p == CASE op = "ControlPacket" -> ControlPacket(flags)
                   [] op = "PublishControlPacket" ->
                        PublishControlPacket(flags)
                   [] op = "PubrelControlPacket" ->
                        PubrelControlPacket(flags)
                   [] op = "SubscribeControlPacket" ->
                        SubscribeControlPacket(flags)
        IN  /\ Called(op, <<flags>>, Returned(p))
            /\ UNCHANGED flags

\* flag_bits() called on the packet the last call constructed
CallFlagBits ==
    /\ call.result.cls \in PacketClasses
    /\ Called("flag_bits", <<call.result>>,
              Returned(PyInt(ControlPacket_flag_bits(call.result))))
    /\ UNCHANGED flags

Next ==
    \/ NewPublishFlags
    \/ NewZeroBits
    \/ NewPubrelBits
    \/ CallBits
    \/ LookupType
    \/ NewRemainingLength
    \/ NewPacketDefault
    \/ NewPacketWithFlags
    \/ CallFlagBits

Spec == Init /\ [][Next]_vars

\* ------------------------------------------------------------------------
\* Properties
\* ------------------------------------------------------------------------

Members == {ControlPacketTypeEnum[i] : i \in 1..Len(ControlPacketTypeEnum)}

MaxRemainingLength == 2^28 - 1

LegalPublishArgs(a) ==
    a[1] \in {0, 1} /\ a[2] \in {0, 1, 2} /\ a[3] \in {0, 1}

\* the argument a raised error names
NamedArg(a, attribute) ==
    CASE attribute = "dup"    -> a[1]
      [] attribute = "qos"    -> a[2]
      [] attribute = "retain" -> a[3]

LegalSet(attribute) ==
    CASE attribute = "dup"    -> {0, 1}
      [] attribute = "qos"    -> {0, 1, 2}
      [] attribute = "retain" -> {0, 1}

\* C1: PublishFlags(dup, qos, retain) succeeds exactly when dup is in {0,1},
\* qos in {0,1,2} and retain in {0,1}; every other call raises an error that
\* names a field whose argument is outside its legal set, and produces no
\* object; an object that is produced carries the arguments unaltered.
C1_ConstructionValidated ==
    /\ call.op = "PublishFlags" =>
         /\ (call.raised = NoError) <=> LegalPublishArgs(call.args)
         /\ call.raised = NoError =>
              /\ call.result = [cls |-> "PublishFlags", dup |-> call.args[1],
                                qos |-> call.args[2], retain |-> call.args[3]]
              /\ flags = call.result
         /\ call.raised # NoError =>
              /\ call.result = None
              /\ call.raised.attribute \in {"dup", "qos", "retain"}
              /\ call.raised.value = NamedArg(call.args, call.raised.attribute)
              /\ call.raised.value \notin LegalSet(call.raised.attribute)
              /\ call.raised.container = LegalSet(call.raised.attribute)
    /\ flags.cls = "PublishFlags" =>
         LegalPublishArgs(<<flags.dup, flags.qos, flags.retain>>)

C1_Witness ==
    /\ call.op = "PublishFlags"
    /\ call.args = <<0, 3, 0>>
    /\ call.raised # NoError
    /\ call.raised.attribute = "qos"
    /\ flags.cls = "PublishFlags"

\* the flag shape the packet kind requires of the 4-bit flag value
FlagShapeOK(name, nibble) ==
    IF name = "PUBLISH"
    THEN nibble \in 0..15 /\ (nibble \div 2) % 4 # 3
    ELSE IF name \in {"PUBREL", "SUBSCRIBE", "UNSUBSCRIBE"}
    THEN nibble = 2
    ELSE nibble = 0

\* C2: every constructed control packet carries one of the 14 packet types
\* and its flag_bits() has the flag shape of that type.
C2_TypedAndShaped ==
    call.result.cls \in PacketClasses =>
        /\ "type" \in DOMAIN call.result
        /\ call.result.type \in Members
        /\ FlagShapeOK(call.result.type.name,
                       ControlPacket_flag_bits(call.result))

\* C3: a RemainingLength is constructed only with message_size in
\* 0..268435455; any other integer makes the construction fail.
C3_RangeEnforced ==
    call.op = "RemainingLength" =>
        /\ (call.raised = NoError) <=> (call.args[1] \in 0..MaxRemainingLength)
        /\ call.result # None =>
             call.result.message_size \in 0..MaxRemainingLength

\* C4: bits() returns a value in 0..15: dup in bit 3, qos in bits 2-1 and
\* retain in bit 0 for a PublishFlags, 0b0010 for PubrelBits (SubscribeBits,
\* UnsubscribeBits), 0 for ZeroBits.
C4_BitsPattern ==
    call.op = "bits" =>
        LET self == call.args[1]
            n == call.result.value
        IN  /\ n \in 0..15
            /\ self.cls = "PublishFlags" =>
                   n = 8 * self.dup + 2 * self.qos + self.retain
            /\ self.cls = "PubrelBits" => n = 2
            /\ self.cls = "ZeroBits" => n = 0

C4_Witness ==
    /\ call.op = "bits"
    /\ call.args[1] = [cls |-> "PublishFlags", dup |-> 1, qos |-> 2,
                       retain |-> 1]
    /\ call.result.value = 13

ValidPublishFlags ==
    {PublishFlags(d, q, r).result : d \in ArgInts, q \in ArgInts,
                                    r \in ArgInts} \ {None}

\* C5: the value bits() returns for a PublishFlags, taken apart as dup = bit
\* 3, qos = bits 2-1, retain = bit 0 and passed to PublishFlags again, gives
\* the same object; bits() is injective over the 12 valid PublishFlags and
\* its qos bits are never 0b11.
C5_RoundTrip ==
    (call.op = "bits" /\ call.args[1].cls = "PublishFlags") =>
        LET n == call.result.value
            again == PublishFlags((n \div 8) % 2, (n \div 2) % 4, n % 2)
        IN  /\ again.raised = NoError
            /\ again.result = call.args[1]
            /\ (n \div 2) % 4 # 3
            /\ call.args[1] \in ValidPublishFlags
            /\ Cardinality(ValidPublishFlags) = 12
            /\ \A g \in ValidPublishFlags :
                   PublishFlags_bits(g) = n => g = call.args[1]

C5_Witness ==
    /\ call.op = "bits"
    /\ call.args[1] = [cls |-> "PublishFlags", dup |-> 1, qos |-> 2,
                       retain |-> 0]
    /\ call.result.value = 12

\* C6: the 14 members and the codes 1..14 are in bijection: looking up the
\* code of a member returns that member, every code in 1..14 belongs to
\* exactly one member, and looking up 0 or 15 raises and returns no member.
C6_Bijection ==
    call.op = "ControlPacketTypeEnum" =>
        LET code == call.args[1]
            owners == {m \in Members : m.value = code}
        IN  /\ (call.raised = NoError) <=> (code \in 1..14)
            /\ code \in {0, 15} =>
                   call.raised # NoError /\ call.result = None
            /\ call.raised = NoError => owners = {call.result}
            /\ call.raised # NoError => owners = {}
            /\ Cardinality(Members) = 14
            /\ Cardinality({m.name : m \in Members}) = 14
            /\ {m.value : m \in Members} = 1..14

C6_Witness ==
    /\ call.op = "ControlPacketTypeEnum"
    /\ call.args = <<15>>
    /\ call.raised # NoError
    /\ call.result = None

====
